---- MODULE Spec2Model ----
(***************************************************************************)
(* ClimateFlowSolver: the sparse matrix store (sparse_matrix.rs), the      *)
(* iterative solver (sparse_system.rs) and the mesh builder (mesher.rs).   *)
(*                                                                         *)
(* Rust vectors are modelled as TLA+ sequences.  Rust indices are 0-based: *)
(* every row, column, entry position and cell id of the model keeps its    *)
(* 0-based Rust value, and a vector v is read at Rust index i as v[i + 1]. *)
(* f64 values are modelled by integers (sums and products of the small     *)
(* integers used here are exact in f64).                                   *)
(***************************************************************************)
EXTENDS Integers, Sequences, FiniteSets, TLC

VARIABLES
    \* ---- sparse matrix store ----
    rows, cols, values,   \* the three input vectors of from_vecs
    x,                    \* the vector handed to dot / dot_par
    matrix,               \* the SparseMatrix, or NoMatrix before construction
    mpc,                  \* "new" | "ready" | "panic"
    dot_res,              \* result of dot(x), or NoResult
    dot_par_res,          \* result of dot_par(x), or NoResult
    \* ---- mesh builder ----
    nx, ny,               \* terrain.nx, terrain.ny
    elevations,           \* terrain.elevations, read by terrain.z(i, j)
    zs_in,                \* the zs argument of naive_mesh
    cells,                \* Array3<Option<Cell>> of shape (nx, ny, nz)
    z_count,              \* Array2 of shape (nx, ny)
    new_idx,              \* the old-id -> new-id table
    mesh,                 \* Mesh.cells, the returned Vec<Cell>
    mesh_pc,              \* position in naive_mesh
    \* ---- iterative solver ----
    coefficients,         \* SparseSystem.coefficients
    column,               \* SparseSystem.column, the right-hand side
    x0, tol, max_iters,   \* the arguments of gauss_seidel_solve
    solver_pc,            \* position in gauss_seidel_solve
    solver_x,             \* the local x
    sweeps,               \* passes of the loop body completed
    result,               \* the SolverResult returned, or NoResult
    \* ---- SparseMatrix::load ----
    file,                 \* the lines of the file, each split at whitespace
    load_res,             \* what load returned, or NoResult
    \* ---- a parallel region (dot_par, or the update of one sweep) ----
    par_region,           \* "dot_par" | "sweep"
    par_pc,               \* "running" | "joined" | "panic"
    par_todo,             \* the row tasks that have not run yet
    par_out,              \* the output slots: the collected b, or x updated in place
    par_sum_rows,         \* the local sum_rows the tasks of a sweep read
    par_log               \* the accesses made: <<task, "r" | "w", object, slot>>

matrix_vars == <<rows, cols, values, x, matrix, mpc, dot_res, dot_par_res>>
mesh_vars == <<nx, ny, elevations, zs_in, cells, z_count, new_idx, mesh, mesh_pc>>
solver_vars == <<coefficients, column, x0, tol, max_iters, solver_pc, solver_x, sweeps,
                 result>>
load_vars == <<file, load_res>>
par_vars == <<par_region, par_pc, par_todo, par_out, par_sum_rows, par_log>>
vars == <<matrix_vars, mesh_vars, solver_vars, load_vars, par_vars>>

(***************************************************************************)
(* Bounds of the model.                                                    *)
(***************************************************************************)
MaxEntries == 2      \* longest input entry list
MaxRow == 2          \* largest row index of an input entry
MaxCol == 1          \* largest column index of an input entry

MaxNx == 3           \* largest terrain.nx
MaxNy == 2           \* largest terrain.ny

ValSet == {1, 2}     \* entry values
XSet == {1, 3}       \* elements of x
Elevs == {1, 3}      \* terrain elevations
Levels == {0, 2, 4}  \* vertical levels, interleaved with Elevs

MaxSolverEntries == 3                 \* longest entry list of a solver matrix
MaxIters == 2                         \* largest max_iters
SolverIdx == {0, 1}                   \* rows and columns of a solver matrix
SolverValSet == {-1, 2}               \* entry values of a solver matrix
ColumnSet == {1, 2}                   \* elements of the right-hand side
X0Set == {0}                          \* elements of the initial guess
TolSet == {<<1, 1>>, <<1, 100>>}      \* tolerances 1 and 0.01

(***************************************************************************)
(* Helpers for 0-based vectors.                                            *)
(***************************************************************************)
At(v, i) == v[i + 1]
Put(v, i, e) == [v EXCEPT ![i + 1] = e]
Fill(n, e) == [k \in 1..n |-> e]
Max2(a, b) == IF a >= b THEN a ELSE b
Min2(a, b) == IF a <= b THEN a ELSE b

None == <<>>
Some(a, b) == <<a, b>>

NoMatrix == [entries |-> <<>>, n_rows |-> 0, n_cols |-> 0, row_indices |-> <<>>,
             built |-> FALSE]
NoResult == [kind |-> "none"]
Ok(v) == [kind |-> "ok", val |-> v]
Err(msg) == [kind |-> "err", msg |-> msg]
Panic == [kind |-> "panic"]

(***************************************************************************)
(* SparseMatrix::compute_size: n_rows = max(row + 1), n_cols = max(col+1), *)
(* folded over the entries from the current sizes.                         *)
(***************************************************************************)
RECURSIVE compute_size_from(_, _, _, _)
compute_size_from(es, i, nr, nc) ==
    IF i > Len(es) THEN <<nr, nc>>
    ELSE compute_size_from(es, i + 1, Max2(nr, es[i][1] + 1), Max2(nc, es[i][2] + 1))

compute_size(m) ==
    LET s == compute_size_from(m.entries, 1, m.n_rows, m.n_cols)
    IN [m EXCEPT !.n_rows = s[1], !.n_cols = s[2]]

(***************************************************************************)
(* SparseMatrix::sort_entries: a stable sort by (row, col) ascending.      *)
(* Modelled as a stable insertion sort: entry i is inserted after every    *)
(* already placed entry that does not compare greater.                     *)
(***************************************************************************)
EntryLess(a, b) == a[1] < b[1] \/ (a[1] = b[1] /\ a[2] < b[2])

RECURSIVE InsertSorted(_, _)
InsertSorted(e, s) ==
    IF s = <<>> THEN <<e>>
    ELSE IF EntryLess(e, Head(s)) THEN <<e>> \o s
    ELSE <<Head(s)>> \o InsertSorted(e, Tail(s))

RECURSIVE SortFrom(_, _, _)
SortFrom(es, i, acc) ==
    IF i > Len(es) THEN acc ELSE SortFrom(es, i + 1, InsertSorted(es[i], acc))

sort_entries(m) == [m EXCEPT !.entries = SortFrom(m.entries, 1, <<>>)]

(***************************************************************************)
(* SparseMatrix::compute_row_indices.  The loop keeps current_row and      *)
(* start_index, both starting at 0, skips position 0, and closes the range *)
(* of current_row when the row changes; after the loop the last range is   *)
(* closed.  With no entries the final store indexes an empty vector (and   *)
(* computes 0 - 1 on usize): the call panics.                              *)
(***************************************************************************)
RECURSIVE RowIndexLoop(_, _, _, _, _)
RowIndexLoop(es, i, ri, current_row, start_index) ==
    \* i is the 0-based position of the loop
    IF i >= Len(es) THEN [ri |-> ri, current_row |-> current_row, start_index |-> start_index]
    ELSE IF i = 0 THEN RowIndexLoop(es, i + 1, ri, current_row, start_index)
    ELSE IF current_row # At(es, i)[1]
         THEN RowIndexLoop(es, i + 1, Put(ri, current_row, Some(start_index, i - 1)),
                           At(es, i)[1], i)
         ELSE RowIndexLoop(es, i + 1, ri, current_row, start_index)

compute_row_indices_panics(m) == Len(m.entries) = 0

compute_row_indices(m) ==
    LET l == RowIndexLoop(m.entries, 0, Fill(m.n_rows, None), 0, 0)
    IN [m EXCEPT !.row_indices =
            Put(l.ri, l.current_row, Some(l.start_index, Len(m.entries) - 1))]

(***************************************************************************)
(* SparseMatrix::preprocess and SparseMatrix::from_vecs.                   *)
(***************************************************************************)
preprocess_panics(m) == compute_row_indices_panics(sort_entries(compute_size(m)))

preprocess(m) == [compute_row_indices(sort_entries(compute_size(m))) EXCEPT !.built = TRUE]

\* izip!(rows, cols, values): stops at the shortest of the three
izip(rs, cs, vs) ==
    [k \in 1..Min2(Len(rs), Min2(Len(cs), Len(vs))) |-> <<rs[k], cs[k], vs[k]>>]

from_vecs_panics(rs, cs, vs) ==
    preprocess_panics([NoMatrix EXCEPT !.entries = izip(rs, cs, vs)])

from_vecs(rs, cs, vs) == preprocess([NoMatrix EXCEPT !.entries = izip(rs, cs, vs)])

(***************************************************************************)
(* SparseMatrix::dot: the serial product, one pass over the entries.       *)
(***************************************************************************)
\* mutant of DotLoop: the entry's product overwrites the slot instead of adding to it
RECURSIVE DotLoopOverwrite(_, _, _, _)
DotLoopOverwrite(es, xv, i, b) ==
    IF i > Len(es) THEN b
    ELSE DotLoopOverwrite(es, xv, i + 1, Put(b, es[i][1], At(xv, es[i][2]) * es[i][3]))

RECURSIVE DotLoop(_, _, _, _)
DotLoop(es, xv, i, b) ==
    IF i > Len(es) THEN b
    ELSE DotLoop(es, xv, i + 1,
                 Put(b, es[i][1], At(b, es[i][1]) + At(xv, es[i][2]) * es[i][3]))

DimensionMessage(m, xv) == <<"Cannot multiply", m.n_rows, m.n_cols, Len(xv)>>

dot(m, xv) ==
    IF m.n_cols # Len(xv) THEN Err(DimensionMessage(m, xv))
    ELSE IF \E i \in 1..Len(m.entries) :
                m.entries[i][1] >= m.n_rows \/ m.entries[i][2] >= Len(xv)
         THEN Panic
    ELSE Ok(DotLoop(m.entries, xv, 1, Fill(m.n_rows, 0)))

(***************************************************************************)
(* SparseMatrix::dot_par: one task per element of row_indices; a task sums *)
(* entries[i].2 * x[entries[i].1] for i in a..=b, or yields 0 for None.    *)
(***************************************************************************)
RECURSIVE RangeSum(_, _, _, _)
RangeSum(es, xv, a, b) ==
    IF a > b THEN 0
    ELSE At(es, a)[3] * At(xv, At(es, a)[2]) + RangeSum(es, xv, a + 1, b)

RowTask(m, xv, maybe_range) ==
    IF maybe_range = None THEN 0
    ELSE RangeSum(m.entries, xv, maybe_range[1], maybe_range[2])

RowTaskPanics(m, xv, maybe_range) ==
    /\ maybe_range # None
    /\ \E i \in maybe_range[1]..maybe_range[2] :
          i >= Len(m.entries) \/ At(m.entries, i)[2] >= Len(xv)

\* mutant of dot_par: the length of x is compared with n_rows
dot_par_checks_rows(m, xv) ==
    IF m.n_rows # Len(xv) THEN Err(DimensionMessage(m, xv))
    ELSE IF \E r \in 1..Len(m.row_indices) : RowTaskPanics(m, xv, m.row_indices[r])
         THEN Panic
    ELSE Ok([r \in 1..Len(m.row_indices) |-> RowTask(m, xv, m.row_indices[r])])

dot_par(m, xv) ==
    IF m.n_cols # Len(xv) THEN Err(DimensionMessage(m, xv))
    ELSE IF \E r \in 1..Len(m.row_indices) : RowTaskPanics(m, xv, m.row_indices[r])
         THEN Panic
    ELSE Ok([r \in 1..Len(m.row_indices) |-> RowTask(m, xv, m.row_indices[r])])

(***************************************************************************)
(* The matrix store as a state machine: the inputs are drawn by Init, then *)
(* from_vecs builds the matrix and dot / dot_par are called on it once.    *)
(***************************************************************************)
FromInt(n) == <<n, 1>>

SolverIdle ==
    /\ coefficients = NoMatrix /\ column = <<>> /\ x0 = <<>> /\ tol = FromInt(0)
    /\ max_iters = 0 /\ solver_pc = "idle" /\ solver_x = <<>> /\ sweeps = 0
    /\ result = NoResult

LoadIdle == file = <<>> /\ load_res = [kind |-> "idle"]

ParIdle ==
    /\ par_region = "idle" /\ par_pc = "idle" /\ par_todo = {} /\ par_out = <<>>
    /\ par_sum_rows = <<>> /\ par_log = {}

MeshIdle ==
    /\ nx = 0 /\ ny = 0 /\ elevations = <<>> /\ zs_in = <<>>
    /\ cells = <<>> /\ z_count = <<>> /\ new_idx = <<>> /\ mesh = <<>>
    /\ mesh_pc = "idle"

InitMatrix ==
    /\ MeshIdle /\ SolverIdle /\ LoadIdle /\ ParIdle
    /\ \E n \in 0..MaxEntries :
          /\ rows \in [1..n -> 0..MaxRow]
          /\ cols \in [1..n -> 0..MaxCol]
          /\ values \in [1..n -> ValSet]
    /\ \E n \in 0..(MaxCol + 2) : x \in [1..n -> XSet]
    /\ matrix = NoMatrix
    /\ mpc = "new"
    /\ dot_res = NoResult
    /\ dot_par_res = NoResult

FromVecs ==
    /\ mpc = "new"
    /\ IF from_vecs_panics(rows, cols, values)
       THEN mpc' = "panic" /\ UNCHANGED matrix
       ELSE mpc' = "ready" /\ matrix' = from_vecs(rows, cols, values)
    /\ UNCHANGED <<rows, cols, values, x, dot_res, dot_par_res, mesh_vars, solver_vars, load_vars, par_vars>>

Dot ==
    /\ mpc = "ready"
    /\ dot_res = NoResult
    /\ dot_res' = dot(matrix, x)
    /\ UNCHANGED <<rows, cols, values, x, matrix, mpc, dot_par_res, mesh_vars, solver_vars, load_vars, par_vars>>

DotPar ==
    /\ mpc = "ready"
    /\ dot_par_res = NoResult
    /\ dot_par_res' = dot_par(matrix, x)
    /\ UNCHANGED <<rows, cols, values, x, matrix, mpc, dot_res, mesh_vars, solver_vars, load_vars, par_vars>>

NextMatrix == FromVecs \/ Dot \/ DotPar

SpecMatrix == InitMatrix /\ [][NextMatrix]_vars

(***************************************************************************)
(* Mesh::naive_mesh.                                                       *)
(*                                                                         *)
(* A Vector is <<x, y, z>>; terrain.x(col) and terrain.y(row) are affine   *)
(* in the index and are modelled by the index itself.  An Option<Cell> is  *)
(* <<>> (None) or <<cell>> (Some(cell)); an Option<usize> of a wall is     *)
(* <<>> or <<id>>.  A wall's polygon is kept as the indices of the cell's  *)
(* vertices it is built from.                                              *)
(***************************************************************************)
MatrixIdle ==
    /\ rows = <<>> /\ cols = <<>> /\ values = <<>> /\ x = <<>>
    /\ matrix = NoMatrix /\ mpc = "idle"
    /\ dot_res = NoResult /\ dot_par_res = NoResult

SomeOf(e) == <<e>>
IsSome(o) == o # <<>>
Unwrap(o) == o[1]

RECURSIVE Reverse(_)
Reverse(s) == IF s = <<>> THEN <<>> ELSE Append(Reverse(Tail(s)), Head(s))

\* let zs: Vec<f64> = zs.into_iter().rev().collect();
zs == Reverse(zs_in)
nz == Len(zs_in)

\* Array2 of shape (nx, ny) and Array3 of shape (nx, ny, nz), in row-major order
Index2(i, j) == ny * i + j
Index3(i, j, k) == (ny * nz) * i + nz * j + k
CellAt(i, j, k) == At(cells, Index3(i, j, k))

terrain_z(i, j) == At(elevations, Index2(i, j))

min_height(i, j) ==
    Min2(Min2(terrain_z(i, j), terrain_z(i + 1, j)),
         Min2(terrain_z(i, j + 1), terrain_z(i + 1, j + 1)))

\* zs.iter().take_while(|z| z >= h).count()
RECURSIVE TakeWhileCount(_, _)
TakeWhileCount(s, h) ==
    IF s = <<>> \/ ~(Head(s) >= h) THEN 0 ELSE 1 + TakeWhileCount(Tail(s), h)

\* .enumerate().map(|(i, _)| i).last(): None when nothing is taken
LastTakenIndex(i, j) ==
    IF TakeWhileCount(zs, min_height(i, j)) = 0 THEN <<>>
    ELSE SomeOf(TakeWhileCount(zs, min_height(i, j)) - 1)

\* mutant of ZCountOf: the count is one short
ZCountOfShort(i, j) == 1 + Unwrap(LastTakenIndex(i, j))

\* z_count[(i, j)] = 2 + last index, for a column where the unwrap succeeds
ZCountOf(i, j) == 2 + Unwrap(LastTakenIndex(i, j))

Columns == (0..(nx - 2)) \X (0..(ny - 2))

\* The cell loop of column (i, j) panics when the unwrap meets None, or when
\* zs[k + 1] (or cells[(i, j, k)]) is read past the end for some k < z_count - 1.
ColumnPanics(i, j) ==
    \/ ~IsSome(LastTakenIndex(i, j))
    \/ \E k \in 0..(ZCountOf(i, j) - 2) : k + 1 >= nz \/ k >= nz

ProvisionalId(i, j, k) == (nx * ny) * k + ny * i + j

\* mutant of NewCell: the cell above is recorded as a neighbour
NewCellWithNeighbours(i, j, k) ==
    [id |-> ProvisionalId(i, j, k),
     vertices |-> << <<i, j, At(zs, k + 1)>>, <<i + 1, j, At(zs, k + 1)>>,
                     <<i + 1, j, At(zs, k)>>, <<i, j, At(zs, k)>>,
                     <<i, j + 1, At(zs, k + 1)>>, <<i + 1, j + 1, At(zs, k + 1)>>,
                     <<i + 1, j + 1, At(zs, k)>>, <<i, j + 1, At(zs, k)>> >>,
     walls |-> <<>>,
     neighbours |-> IF k > 0 THEN <<ProvisionalId(i, j, k - 1)>> ELSE <<>>]

NewCell(i, j, k) ==
    LET z1 == At(zs, k)
        z2 == At(zs, k + 1)
    IN [id |-> ProvisionalId(i, j, k),
        vertices |-> << <<i, j, z2>>, <<i + 1, j, z2>>, <<i + 1, j, z1>>, <<i, j, z1>>,
                        <<i, j + 1, z2>>, <<i + 1, j + 1, z2>>, <<i + 1, j + 1, z1>>,
                        <<i, j + 1, z1>> >>,
        walls |-> <<>>,
        neighbours |-> <<>>]

Wall(poly, kind, cells_id) == [poly |-> poly, kind |-> kind, cells_id |-> cells_id]

\* mutant of wall_upper: every upper wall is classified Sky
wall_upper_always_sky(i, j, k, id) == Wall(<<3, 7, 6, 2>>, "Sky", <<SomeOf(id), None>>)

wall_upper(i, j, k, id) ==
    IF k = 0 THEN Wall(<<3, 7, 6, 2>>, "Sky", <<SomeOf(id), None>>)
    ELSE Wall(<<3, 7, 6, 2>>, "Interior",
              <<SomeOf(id), SomeOf((nx * ny) * (k - 1) + ny * i + j)>>)

wall_south(i, j, k, id) ==
    IF j = 0 THEN Wall(<<3, 2, 1, 0>>, "Inlet", <<SomeOf(id), None>>)
    ELSE Wall(<<3, 2, 1, 0>>, "Interior",
              <<SomeOf(id), SomeOf((nx * ny) * k + ny * i + (j - 1))>>)

wall_west(i, j, k, id) ==
    IF i = 0 THEN Wall(<<0, 4, 7, 3>>, "Inlet", <<SomeOf(id), None>>)
    ELSE Wall(<<0, 4, 7, 3>>, "Interior",
              <<SomeOf(id), SomeOf((nx * ny) * k + ny * (i - 1) + j)>>)

wall_lower(i, j, k, id) ==
    IF k = At(z_count, Index2(i, j)) - 1 THEN Wall(<<0, 1, 5, 4>>, "Terrain", <<SomeOf(id), None>>)
    ELSE Wall(<<0, 1, 5, 4>>, "Interior",
              <<SomeOf(id), SomeOf((nx * ny) * (k + 1) + ny * i + j)>>)

wall_north(i, j, k, id) ==
    IF j = ny - 1 THEN Wall(<<4, 5, 6, 7>>, "Inlet", <<SomeOf(id), None>>)
    ELSE Wall(<<4, 5, 6, 7>>, "Interior",
              <<SomeOf(id), SomeOf((nx * ny) * k + ny * i + (j + 1))>>)

wall_east(i, j, k, id) ==
    IF i = nx - 1 THEN Wall(<<1, 2, 6, 5>>, "Inlet", <<SomeOf(id), None>>)
    ELSE Wall(<<1, 2, 6, 5>>, "Interior",
              <<SomeOf(id), SomeOf((nx * ny) * k + ny * (i + 1) + j)>>)

\* the six pushes onto cell.walls, in the order of the code
CellWalls(i, j, k, id) ==
    << wall_upper(i, j, k, id), wall_south(i, j, k, id), wall_west(i, j, k, id),
       wall_lower(i, j, k, id), wall_north(i, j, k, id), wall_east(i, j, k, id) >>

\* The (i, j, k) visited by: for i in 0..nx-1 { for j in 0..ny-1 { for k in 0..z_count[(i,j)]
\* whose slot holds a cell (if let Some(cell) = ...).
Visited(p) ==
    /\ p[1] < nx - 1 /\ p[2] < ny - 1 /\ p[3] < At(z_count, Index2(p[1], p[2]))
    /\ IsSome(CellAt(p[1], p[2], p[3]))

\* The n-th slot of the (nx, ny, nz) array in its logical (row-major) order, which
\* is also the order of the nested loops.
Slot(n) == <<n \div (ny * nz), (n \div nz) % ny, n % nz>>
SlotCount == nx * ny * nz

\* mutant of NewIdxLoop: the counter is advanced for every slot of the array
RECURSIVE NewIdxLoopCountsSlots(_, _, _)
NewIdxLoopCountsSlots(n, idx, count) ==
    IF n >= SlotCount THEN idx
    ELSE IF Visited(Slot(n))
         THEN NewIdxLoopCountsSlots(n + 1, Put(idx, Unwrap(At(cells, n)).id, count), count + 1)
         ELSE NewIdxLoopCountsSlots(n + 1, idx, count + 1)

\* new_idx[cell.id] = count; count += 1, over the visited cells in loop order
RECURSIVE NewIdxLoop(_, _, _)
NewIdxLoop(n, idx, count) ==
    IF n >= SlotCount THEN idx
    ELSE IF Visited(Slot(n))
         THEN NewIdxLoop(n + 1, Put(idx, Unwrap(At(cells, n)).id, count), count + 1)
         ELSE NewIdxLoop(n + 1, idx, count)

\* The reindex loop rewrites the ids of cell.walls.clone(), a temporary that is
\* dropped at the end of the statement: the walls of the cell keep their ids.
ReindexedClone(walls) ==
    [w \in 1..Len(walls) |->
        [walls[w] EXCEPT !.cells_id =
            [c \in 1..2 |-> IF IsSome(walls[w].cells_id[c])
                            THEN SomeOf(At(new_idx, Unwrap(walls[w].cells_id[c])))
                            ELSE None]]]

ReindexPanics ==
    \E n \in 0..(SlotCount - 1) :
        /\ Visited(Slot(n))
        /\ LET cell == Unwrap(At(cells, n))
           IN \/ cell.id >= Len(new_idx)
              \/ \E w \in 1..Len(cell.walls) :
                    LET ids == cell.walls[w].cells_id
                    IN \E c \in 1..2 : IsSome(ids[c]) /\ Unwrap(ids[c]) >= Len(new_idx)

ReindexCell(c) == [c EXCEPT !.id = At(new_idx, c.id)]

\* mutant of FilterMap: the cells are collected layer by layer, in the order of
\* their provisional ids
FilterMapByLayer(n, acc) ==
    LET order == [m \in 0..(SlotCount - 1) |->
                     Index3((m % (nx * ny)) \div ny, (m % (nx * ny)) % ny, m \div (nx * ny))]
        present == {m \in 0..(SlotCount - 1) : IsSome(At(cells, order[m]))}
        rank(m) == Cardinality({l \in present : l < m})
    IN [r \in 1..Cardinality(present) |->
           Unwrap(At(cells, order[CHOOSE m \in present : rank(m) = r - 1]))]

\* cells.into_iter().filter_map(|c| c).collect()
RECURSIVE FilterMap(_, _)
FilterMap(n, acc) ==
    IF n >= SlotCount THEN acc
    ELSE IF IsSome(At(cells, n)) THEN FilterMap(n + 1, Append(acc, Unwrap(At(cells, n))))
    ELSE FilterMap(n + 1, acc)

\* "Assume zs are sorted": the level lists in ascending order, without repetition
SortedLevels ==
    {s \in UNION {[1..n -> Levels] : n \in 0..Cardinality(Levels)} :
        \A a, b \in 1..Len(s) : a < b => s[a] < s[b]}

InitMesh ==
    /\ MatrixIdle /\ SolverIdle /\ LoadIdle /\ ParIdle
    /\ nx \in 1..MaxNx
    /\ ny \in 1..MaxNy
    /\ elevations \in [1..(nx * ny) -> Elevs]
    /\ zs_in \in SortedLevels
    /\ cells = <<>> /\ z_count = <<>> /\ new_idx = <<>> /\ mesh = <<>>
    /\ mesh_pc = "start"

\* lines 167-236: the arrays are allocated and the cells of every column created
CreateCells ==
    /\ mesh_pc = "start"
    /\ IF \E q \in Columns : ColumnPanics(q[1], q[2])
       THEN /\ mesh_pc' = "panic"
            /\ UNCHANGED <<cells, z_count>>
       ELSE /\ mesh_pc' = "cells"
            /\ z_count' = [n \in 1..(nx * ny) |->
                              LET i == (n - 1) \div ny
                                  j == (n - 1) % ny
                              IN IF <<i, j>> \in Columns THEN ZCountOf(i, j) ELSE 0]
            /\ cells' = [n \in 1..SlotCount |->
                            LET p == Slot(n - 1)
                            IN IF <<p[1], p[2]>> \in Columns /\ p[3] < ZCountOf(p[1], p[2]) - 1
                               THEN SomeOf(NewCell(p[1], p[2], p[3]))
                               ELSE None]
    /\ UNCHANGED <<nx, ny, elevations, zs_in, new_idx, mesh, matrix_vars, solver_vars, load_vars, par_vars>>

\* lines 255-325
CreateWalls ==
    /\ mesh_pc = "cells"
    /\ mesh_pc' = "walls"
    /\ cells' = [n \in 1..SlotCount |->
                    LET p == Slot(n - 1)
                    IN IF Visited(p)
                       THEN SomeOf([Unwrap(cells[n]) EXCEPT
                               !.walls = CellWalls(p[1], p[2], p[3], Unwrap(cells[n]).id)])
                       ELSE cells[n]]
    /\ UNCHANGED <<nx, ny, elevations, zs_in, z_count, new_idx, mesh, matrix_vars, solver_vars, load_vars, par_vars>>

\* lines 327-339
ComputeNewIndex ==
    /\ mesh_pc = "walls"
    /\ mesh_pc' = "indexed"
    /\ new_idx' = NewIdxLoop(0, Fill(SlotCount, 0), 0)
    /\ UNCHANGED <<nx, ny, elevations, zs_in, cells, z_count, mesh, matrix_vars, solver_vars, load_vars, par_vars>>

\* lines 341-357
Reindex ==
    /\ mesh_pc = "indexed"
    /\ IF ReindexPanics
       THEN mesh_pc' = "panic" /\ UNCHANGED cells
       ELSE /\ mesh_pc' = "reindexed"
            /\ cells' = [n \in 1..SlotCount |->
                            IF Visited(Slot(n - 1)) THEN SomeOf(ReindexCell(Unwrap(cells[n])))
                            ELSE cells[n]]
    /\ UNCHANGED <<nx, ny, elevations, zs_in, z_count, new_idx, mesh, matrix_vars, solver_vars, load_vars, par_vars>>

\* lines 359-360
Collect ==
    /\ mesh_pc = "reindexed"
    /\ mesh_pc' = "done"
    /\ mesh' = FilterMap(0, <<>>)
    /\ UNCHANGED <<nx, ny, elevations, zs_in, cells, z_count, new_idx, matrix_vars, solver_vars, load_vars, par_vars>>

NextMesh == CreateCells \/ CreateWalls \/ ComputeNewIndex \/ Reindex \/ Collect

SpecMesh == InitMesh /\ [][NextMesh]_vars

\* The level lists a caller can pass: any order, repetitions included
AnyLevels == UNION {[1..n -> Levels] : n \in 0..Cardinality(Levels)}

\* Terrain grids with at most one column of cells
SmallGridSizes == {1, 2}

InitMeshLevels ==
    /\ MatrixIdle /\ SolverIdle /\ LoadIdle /\ ParIdle
    /\ nx \in SmallGridSizes
    /\ ny \in SmallGridSizes
    /\ elevations \in [1..(nx * ny) -> Elevs]
    /\ zs_in \in AnyLevels
    /\ cells = <<>> /\ z_count = <<>> /\ new_idx = <<>> /\ mesh = <<>>
    /\ mesh_pc = "start"

SpecMeshLevels == InitMeshLevels /\ [][NextMesh]_vars

(***************************************************************************)
(* SparseMatrix::load.  A line of the file is the sequence of its          *)
(* whitespace-separated parts, each a piece of text.  str::parse::<usize>  *)
(* accepts the unsigned numerals, str::parse::<f64> also the signed one;   *)
(* `?` returns the first parse error.  A line that does not have three     *)
(* parts is skipped.                                                       *)
(***************************************************************************)
MaxLines == 3

Numerals == <<"0", "1", "2">>

parse_usize(t) ==
    IF \E n \in 1..Len(Numerals) : Numerals[n] = t
    THEN Ok((CHOOSE n \in 1..Len(Numerals) : Numerals[n] = t) - 1)
    ELSE Err("ParseIntError")

parse_f64(t) ==
    IF t = "-1" THEN Ok(-1)
    ELSE IF parse_usize(t).kind = "ok" THEN parse_usize(t)
    ELSE Err("ParseFloatError")

\* lines 211-221: the entries pushed so far, or the error of the first bad part
RECURSIVE ReadLines(_, _, _)
ReadLines(lines, n, entries) ==
    IF n > Len(lines) THEN Ok(entries)
    ELSE LET parts == lines[n]
         IN IF Len(parts) # 3 THEN ReadLines(lines, n + 1, entries)
            ELSE IF parse_usize(parts[1]).kind # "ok" THEN parse_usize(parts[1])
            ELSE IF parse_usize(parts[2]).kind # "ok" THEN parse_usize(parts[2])
            ELSE IF parse_f64(parts[3]).kind # "ok" THEN parse_f64(parts[3])
            ELSE ReadLines(lines, n + 1,
                           Append(entries, <<parse_usize(parts[1]).val,
                                             parse_usize(parts[2]).val,
                                             parse_f64(parts[3]).val>>))

load(lines) ==
    LET read == ReadLines(lines, 1, <<>>)
    IN IF read.kind # "ok" THEN read
       ELSE IF preprocess_panics([NoMatrix EXCEPT !.entries = read.val]) THEN Panic
       ELSE Ok(preprocess([NoMatrix EXCEPT !.entries = read.val]))

\* The lines a file is made of: entries, two of them on one position, a line of
\* two parts and a line whose row is not a number
FileLines ==
    {<<"0", "0", "1">>, <<"0", "0", "2">>, <<"1", "0", "-1">>, <<"0", "1", "2">>,
     <<"0", "1">>, <<"x", "0", "1">>}

InitLoad ==
    /\ MatrixIdle /\ MeshIdle /\ SolverIdle /\ ParIdle
    /\ \E n \in 0..MaxLines : file \in [1..n -> FileLines]
    /\ load_res = NoResult

Load ==
    /\ load_res = NoResult
    /\ load_res' = load(file)
    /\ UNCHANGED <<file, matrix_vars, mesh_vars, solver_vars, par_vars>>

NextLoad == Load

SpecLoad == InitLoad /\ [][NextLoad]_vars

(***************************************************************************)
(* SparseSystem (sparse_system.rs).                                        *)
(*                                                                         *)
(* The vectors of the solver hold f64 values that are quotients; they are  *)
(* modelled as exact fractions <<num, den>> in lowest terms with den > 0.  *)
(* A division by zero gives an infinity or a NaN in f64: both are modelled *)
(* by NonFinite, which every later operation keeps and which compares      *)
(* false with every tolerance (the residual is a sum of squares, so it is  *)
(* +inf or NaN, never -inf).                                               *)
(***************************************************************************)
NonFinite == <<0, 0>>
IsFinite(a) == a[2] # 0
Abs(n) == IF n < 0 THEN -n ELSE n

RECURSIVE Gcd(_, _)
Gcd(a, b) == IF b = 0 THEN a ELSE Gcd(b, a % b)

Frac(n, d) ==
    IF d = 0 THEN NonFinite
    ELSE LET g == Gcd(Abs(n), Abs(d))
             s == IF d < 0 THEN -1 ELSE 1
         IN <<s * (n \div g), s * (d \div g)>>

FAdd(a, b) == IF IsFinite(a) /\ IsFinite(b) THEN Frac(a[1] * b[2] + b[1] * a[2], a[2] * b[2])
              ELSE NonFinite
FSub(a, b) == IF IsFinite(a) /\ IsFinite(b) THEN Frac(a[1] * b[2] - b[1] * a[2], a[2] * b[2])
              ELSE NonFinite
FMul(a, b) == IF IsFinite(a) /\ IsFinite(b) THEN Frac(a[1] * b[1], a[2] * b[2])
              ELSE NonFinite
FDiv(a, b) == IF IsFinite(a) /\ IsFinite(b) THEN Frac(a[1] * b[2], a[2] * b[1])
              ELSE NonFinite
\* mutant of FLess: the comparison also accepts equality
FLessOrEqual(a, b) == IsFinite(a) /\ IsFinite(b) /\ a[1] * b[2] <= b[1] * a[2]

\* a < b on f64: false when either side is not finite
FLess(a, b) == IsFinite(a) /\ IsFinite(b) /\ a[1] * b[2] < b[1] * a[2]

\* SparseMatrix::dot on a vector of fractions
RECURSIVE DotLoopF(_, _, _, _)
DotLoopF(es, xv, i, b) ==
    IF i > Len(es) THEN b
    ELSE DotLoopF(es, xv, i + 1,
                  Put(b, es[i][1],
                      FAdd(At(b, es[i][1]), FMul(At(xv, es[i][2]), FromInt(es[i][3])))))

dot_f64(m, xv) ==
    IF m.n_cols # Len(xv) THEN Err(DimensionMessage(m, xv))
    ELSE Ok(DotLoopF(m.entries, xv, 1, Fill(m.n_rows, FromInt(0))))

\* self.coefficients.dot(&x).unwrap() panics on Err
error_sq_panics(xv) == dot_f64(coefficients, xv).kind # "ok"

RECURSIVE SumSquares(_, _, _)
SumSquares(ax, b, i) ==
    \* .iter().zip(self.column.iter()): stops at the shorter of the two
    IF i > Min2(Len(ax), Len(b)) THEN FromInt(0)
    ELSE FAdd(FMul(FSub(ax[i], FromInt(b[i])), FSub(ax[i], FromInt(b[i]))),
              SumSquares(ax, b, i + 1))

error_sq(xv) == SumSquares(dot_f64(coefficients, xv).val, column, 1)

IsDiagonal(e) == e[1] = e[2]
IsOffDiagonal(e) == e[1] # e[2]
diagonal_entries(m) == SelectSeq(m.entries, IsDiagonal)
off_diagonal_entries(m) == SelectSeq(m.entries, IsOffDiagonal)
diagonal_values(m) == [k \in 1..Len(diagonal_entries(m)) |-> diagonal_entries(m)[k][3]]

\* diagonal[*row] = value.abs(), over the diagonal entries in order
RECURSIVE DiagonalAbs(_, _, _)
DiagonalAbs(es, i, d) ==
    IF i > Len(es) THEN d ELSE DiagonalAbs(es, i + 1, Put(d, es[i][1], Abs(es[i][3])))

\* off_diagonal[*row] += value.abs(), over the off-diagonal entries in order
RECURSIVE OffDiagonalAbs(_, _, _)
OffDiagonalAbs(es, i, od) ==
    IF i > Len(es) THEN od
    ELSE OffDiagonalAbs(es, i + 1, Put(od, es[i][1], At(od, es[i][1]) + Abs(es[i][3])))

is_gauss_seidel_convergent ==
    LET diagonal == DiagonalAbs(diagonal_entries(coefficients), 1, Fill(coefficients.n_rows, 0))
        off_diagonal == OffDiagonalAbs(off_diagonal_entries(coefficients), 1,
                                       Fill(coefficients.n_rows, 0))
    IN \A r \in 1..coefficients.n_rows : diagonal[r] >= off_diagonal[r]

\* sum_rows[*row] += (*value) * x[*col], over the off-diagonal entries in order
RECURSIVE SumRows(_, _, _, _)
SumRows(es, xv, i, sums) ==
    IF i > Len(es) THEN sums
    ELSE SumRows(es, xv, i + 1,
                 Put(sums, es[i][1],
                     FAdd(At(sums, es[i][1]), FMul(FromInt(es[i][3]), At(xv, es[i][2])))))

\* One sweep panics when x[*col], self.column[i] or diagonal[i] is read out of bounds.
SweepPanics(xv) ==
    \/ \E e \in {off_diagonal_entries(coefficients)[k] :
                    k \in 1..Len(off_diagonal_entries(coefficients))} : e[2] >= Len(xv)
    \/ Len(xv) > Len(column)
    \/ Len(xv) > Len(diagonal_values(coefficients))

\* mutant of SweepUpdate: a Gauss-Seidel sweep, row i reads the values the rows
\* before it have already written
RECURSIVE SweepRowsInPlace(_, _)
SweepRowsInPlace(xv, i) ==
    IF i > Len(xv) THEN xv
    ELSE SweepRowsInPlace(
             [xv EXCEPT ![i] =
                 FDiv(FSub(FromInt(column[i]),
                           SumRows(off_diagonal_entries(coefficients), xv, 1,
                                   Fill(coefficients.n_rows, FromInt(0)))[i]),
                      FromInt(diagonal_values(coefficients)[i]))],
             i + 1)

SweepUpdateInPlace(xv) == SweepRowsInPlace(xv, 1)

\* *x_val = (self.column[i] - sum_rows[i]) / diagonal[i], for every i
SweepUpdate(xv) ==
    LET sum_rows == SumRows(off_diagonal_entries(coefficients), xv, 1,
                            Fill(coefficients.n_rows, FromInt(0)))
        diagonal == diagonal_values(coefficients)
    IN [i \in 1..Len(xv) |->
           FDiv(FSub(FromInt(column[i]), sum_rows[i]), FromInt(diagonal[i]))]

SolverResult(solution, converged, dominance, iters, reached, error, message, elapsed) ==
    [solution |-> solution, converged |-> converged, diagonal_dominance |-> dominance,
     iters |-> iters, tol |-> tol, max_iters_reached |-> reached, error |-> error,
     message |-> message, elapsed_time |-> elapsed]

\* The entry lists of the matrices handed to the solver
SolverEntryLists ==
    UNION {[1..n -> SolverIdx \X SolverIdx \X SolverValSet] : n \in 1..MaxSolverEntries}

InitSolver ==
    /\ MatrixIdle /\ MeshIdle /\ LoadIdle /\ ParIdle
    /\ \E es \in SolverEntryLists : coefficients = preprocess([NoMatrix EXCEPT !.entries = es])
    /\ \E n \in 0..(Cardinality(SolverIdx) + 1) : column \in [1..n -> ColumnSet]
    /\ \E n \in 0..(Cardinality(SolverIdx) + 1) : x0 \in [1..n -> X0Set]
    /\ tol \in TolSet
    /\ max_iters \in 0..MaxIters
    /\ solver_pc = "validate"
    /\ solver_x = <<>>
    /\ sweeps = 0
    /\ result = NoResult

\* mutant of x0_has_wrong_length: the length of x0 is not tested
x0_length_unchecked == FALSE

\* mutant of x0_has_wrong_length: the length of x0 is compared with n_cols
x0_length_against_cols == Len(x0) # coefficients.n_cols

x0_has_wrong_length == Len(x0) # coefficients.n_rows

\* Validate (lines 63-81): the length of x0 against the row count
Validate ==
    /\ solver_pc = "validate"
    /\ IF x0_has_wrong_length
       THEN /\ solver_pc' = "returned"
            /\ result' = SolverResult(None, FALSE, None, 0, FALSE, None,
                            <<"Wrong dimensions", Len(x0), coefficients.n_rows,
                              coefficients.n_cols, Len(column)>>, None)
       ELSE /\ solver_pc' = "precheck"
            /\ UNCHANGED result
    /\ UNCHANGED <<coefficients, column, x0, tol, max_iters, solver_x, sweeps,
                   matrix_vars, mesh_vars, load_vars, par_vars>>

\* Precheck (lines 83-100): diagonal dominance, then the iteration is set up
Precheck ==
    /\ solver_pc = "precheck"
    /\ IF ~is_gauss_seidel_convergent
       THEN /\ solver_pc' = "returned"
            /\ result' = SolverResult(None, FALSE, SomeOf(FALSE), 0, FALSE, None,
                            "The coefficients matrix is not diagonally dominant", None)
            /\ UNCHANGED solver_x
       ELSE /\ solver_pc' = "iterate"
            /\ solver_x' = [i \in 1..Len(x0) |-> FromInt(x0[i])]
            /\ UNCHANGED result
    /\ UNCHANGED <<coefficients, column, x0, tol, max_iters, sweeps, matrix_vars, mesh_vars, load_vars, par_vars>>

\* mutant of loop_exhausted: the range of the loop is one sweep short
loop_exhausted_early == sweeps + 1 >= max_iters

\* for iter in 0..max_iters: no iteration is left
loop_exhausted == sweeps >= max_iters

\* One pass of the loop body (lines 102-126)
Sweep ==
    /\ solver_pc = "iterate"
    /\ ~loop_exhausted
    /\ IF SweepPanics(solver_x)
       THEN /\ solver_pc' = "panic"
            /\ UNCHANGED <<solver_x, sweeps, result>>
       ELSE LET xn == SweepUpdate(solver_x)
            IN /\ solver_x' = xn
               /\ sweeps' = sweeps + 1
               /\ IF error_sq_panics(xn)
                  THEN solver_pc' = "panic" /\ UNCHANGED result
                  ELSE IF FLess(error_sq(xn), tol)
                  THEN /\ solver_pc' = "returned"
                       /\ result' = SolverResult(SomeOf(xn), TRUE, SomeOf(TRUE), sweeps + 1,
                                       FALSE, SomeOf(error_sq(xn)),
                                       <<"Converged in iterations", sweeps + 1>>,
                                       SomeOf("elapsed"))
                  ELSE UNCHANGED <<solver_pc, result>>
    /\ UNCHANGED <<coefficients, column, x0, tol, max_iters, matrix_vars, mesh_vars, load_vars, par_vars>>

\* The loop is exhausted (lines 128-141)
MaxItersReached ==
    /\ solver_pc = "iterate"
    /\ loop_exhausted
    /\ IF error_sq_panics(solver_x)
       THEN solver_pc' = "panic" /\ UNCHANGED result
       ELSE /\ solver_pc' = "returned"
            /\ result' = SolverResult(SomeOf(solver_x), TRUE, SomeOf(TRUE), max_iters, TRUE,
                            SomeOf(error_sq(solver_x)),
                            <<"Converged in iterations (max iterations reached)", max_iters>>,
                            SomeOf("elapsed"))
    /\ UNCHANGED <<coefficients, column, x0, tol, max_iters, solver_x, sweeps,
                   matrix_vars, mesh_vars, load_vars, par_vars>>

NextSolver == Validate \/ Precheck \/ Sweep \/ MaxItersReached

SpecSolver == InitSolver /\ [][NextSolver]_vars

(***************************************************************************)
(* The two parallel regions: the row tasks of dot_par (sparse_matrix.rs,   *)
(* lines 140-149) and the tasks of x.par_iter_mut() in a sweep             *)
(* (sparse_system.rs, lines 109-111).  rayon runs the tasks of a region in *)
(* any order and joins them before the caller goes on: a step of the model *)
(* runs one task that has not run yet, and the join happens when none is   *)
(* left.  Every access a task makes is logged.                             *)
(***************************************************************************)
SweepXSet == {0, 1}                   \* elements of x before the sweep

Access(task, mode, object, slot) == <<task, mode, object, slot>>

\* The accesses of the task of element r of row_indices (lines 143-148)
DotParTaskAccesses(r) ==
    LET range == At(matrix.row_indices, r)
    IN {Access(r, "r", "row_indices", r), Access(r, "w", "b", r)}
       \cup (IF range = None THEN {}
             ELSE UNION {{Access(r, "r", "entries", i),
                          Access(r, "r", "x", At(matrix.entries, i)[2])} :
                         i \in range[1]..range[2]})

\* The accesses of the task of x[i] (line 110)
SweepTaskAccesses(i) ==
    {Access(i, "w", "x", i), Access(i, "r", "column", i),
     Access(i, "r", "sum_rows", i), Access(i, "r", "diagonal", i)}

SweepTaskPanics(i) == i >= Len(column) \/ i >= Len(diagonal_values(coefficients))

\* mutant of x_val_update: the task sums the off-diagonal products itself, from
\* the x the other tasks are writing
x_val_update_in_place(i) ==
    FDiv(FSub(FromInt(At(column, i)),
              At(SumRows(off_diagonal_entries(coefficients), par_out, 1,
                         Fill(coefficients.n_rows, FromInt(0))), i)),
         FromInt(At(diagonal_values(coefficients), i)))

\* *x_val = (self.column[i] - sum_rows[i]) / diagonal[i]
x_val_update(i) ==
    FDiv(FSub(FromInt(At(column, i)), At(par_sum_rows, i)),
         FromInt(At(diagonal_values(coefficients), i)))

\* dot_par has passed its dimension test and starts its row tasks
InitDotParRegion ==
    /\ SolverIdle
    /\ par_region = "dot_par"
    /\ \E n \in 1..MaxEntries :
          /\ rows \in [1..n -> 0..MaxRow]
          /\ cols \in [1..n -> 0..MaxCol]
          /\ values \in [1..n -> ValSet]
    /\ matrix = from_vecs(rows, cols, values)
    /\ x \in [1..matrix.n_cols -> XSet]
    /\ mpc = "ready"
    /\ dot_res = NoResult
    /\ dot_par_res = NoResult
    /\ par_todo = 0..(Len(matrix.row_indices) - 1)
    /\ par_out = Fill(Len(matrix.row_indices), None)
    /\ par_sum_rows = <<>>

\* gauss_seidel_solve has passed Validate and Precheck and the loop over the
\* off-diagonal entries (lines 103-107): the tasks of the first sweep start
InitSweepRegion ==
    /\ MatrixIdle
    /\ par_region = "sweep"
    /\ \E es \in SolverEntryLists : coefficients = preprocess([NoMatrix EXCEPT !.entries = es])
    /\ \E n \in 0..(Cardinality(SolverIdx) + 1) : column \in [1..n -> ColumnSet]
    /\ x0 \in [1..coefficients.n_rows -> SweepXSet]
    /\ is_gauss_seidel_convergent
    /\ \A k \in 1..Len(coefficients.entries) : coefficients.entries[k][2] < Len(x0)
    /\ tol \in TolSet
    /\ max_iters = 1
    /\ solver_pc = "iterate"
    /\ sweeps = 0
    /\ result = NoResult
    /\ solver_x = [i \in 1..Len(x0) |-> FromInt(x0[i])]
    /\ par_sum_rows = SumRows(off_diagonal_entries(coefficients), solver_x, 1,
                              Fill(coefficients.n_rows, FromInt(0)))
    /\ par_todo = 0..(Len(x0) - 1)
    /\ par_out = solver_x

InitParallel ==
    /\ MeshIdle /\ LoadIdle
    /\ par_pc = "running"
    /\ par_log = {}
    /\ InitDotParRegion \/ InitSweepRegion

\* One row task of dot_par runs
DotParTask ==
    /\ par_pc = "running"
    /\ par_region = "dot_par"
    /\ \E r \in par_todo :
          IF RowTaskPanics(matrix, x, At(matrix.row_indices, r))
          THEN par_pc' = "panic" /\ UNCHANGED <<par_todo, par_out, par_log>>
          ELSE /\ par_out' = Put(par_out, r,
                                 SomeOf(RowTask(matrix, x, At(matrix.row_indices, r))))
               /\ par_todo' = par_todo \ {r}
               /\ par_log' = par_log \cup DotParTaskAccesses(r)
               /\ UNCHANGED par_pc
    /\ UNCHANGED <<par_region, par_sum_rows, matrix_vars, mesh_vars, solver_vars, load_vars>>

\* One task of the sweep's par_iter_mut runs
SweepTask ==
    /\ par_pc = "running"
    /\ par_region = "sweep"
    /\ \E i \in par_todo :
          IF SweepTaskPanics(i)
          THEN par_pc' = "panic" /\ UNCHANGED <<par_todo, par_out, par_log>>
          ELSE /\ par_out' = Put(par_out, i, x_val_update(i))
               /\ par_todo' = par_todo \ {i}
               /\ par_log' = par_log \cup SweepTaskAccesses(i)
               /\ UNCHANGED par_pc
    /\ UNCHANGED <<par_region, par_sum_rows, matrix_vars, mesh_vars, solver_vars, load_vars>>

\* .collect(): the tasks of dot_par are joined and b is returned (lines 149-151)
JoinDotPar ==
    /\ par_pc = "running"
    /\ par_region = "dot_par"
    /\ par_todo = {}
    /\ par_pc' = "joined"
    /\ dot_par_res' = Ok([r \in 1..Len(par_out) |-> Unwrap(par_out[r])])
    /\ UNCHANGED <<rows, cols, values, x, matrix, mpc, dot_res, par_region, par_todo,
                   par_out, par_sum_rows, par_log, mesh_vars, solver_vars, load_vars>>

\* for_each returns: the tasks of the sweep are joined, x holds the new iterate
JoinSweep ==
    /\ par_pc = "running"
    /\ par_region = "sweep"
    /\ par_todo = {}
    /\ par_pc' = "joined"
    /\ solver_x' = par_out
    /\ sweeps' = sweeps + 1
    /\ UNCHANGED <<coefficients, column, x0, tol, max_iters, solver_pc, result, par_region,
                   par_todo, par_out, par_sum_rows, par_log, matrix_vars, mesh_vars,
                   load_vars>>

NextParallel == DotParTask \/ SweepTask \/ JoinDotPar \/ JoinSweep

SpecParallel == InitParallel /\ [][NextParallel]_vars

(***************************************************************************)
(* Claims about the matrix store.                                          *)
(***************************************************************************)
\* The sum of values[k] * x[cols[k]] over the input positions k in S.
RECURSIVE InputSum(_)
InputSum(S) ==
    IF S = {} THEN 0
    ELSE LET k == CHOOSE k \in S : TRUE
         IN values[k] * At(x, cols[k]) + InputSum(S \ {k})

InputRow(r) == {k \in 1..Len(rows) : rows[k] = r}
MaxInputRow == CHOOSE r \in {rows[k] : k \in 1..Len(rows)} :
                   \A k \in 1..Len(rows) : rows[k] <= r

\* C1: for a matrix built by from_vecs and x with x.len() == n_cols, dot(x) and
\* dot_par(x) return vectors of the same length whose elements agree one by one.
C1_DotParAgreesWithDot ==
    (dot_res.kind = "ok" /\ dot_par_res.kind = "ok") =>
        /\ Len(dot_res.val) = Len(dot_par_res.val)
        /\ \A r \in 1..Len(dot_res.val) : dot_res.val[r] = dot_par_res.val[r]

\* C2: for a matrix built by from_vecs and x with x.len() == n_cols, dot(x)
\* returns a vector of length (max row) + 1 whose element r is the sum of
\* value * x[col] over every input entry with row r, duplicates of a (row, col)
\* position each contributing.
C2_DotIsSumOverRowEntries ==
    (mpc = "ready" /\ dot_res # NoResult /\ Len(x) = matrix.n_cols) =>
        /\ dot_res.kind = "ok"
        /\ matrix.n_rows = MaxInputRow + 1
        /\ Len(dot_res.val) = matrix.n_rows
        /\ \A r \in 0..(matrix.n_rows - 1) : At(dot_res.val, r) = InputSum(InputRow(r))

\* C2 witness: dot returned a product for an input that holds two entries on
\* the same (row, col) position.
C2_Witness ==
    /\ dot_res.kind = "ok"
    /\ \E k1, k2 \in 1..Len(rows) :
          k1 # k2 /\ rows[k1] = rows[k2] /\ cols[k1] = cols[k2]

\* C3: dot(x) and dot_par(x) each return Err, without panicking and without a
\* product, exactly when x.len() != n_cols, and Ok when x.len() == n_cols.
C3_ErrIffDimensionMismatch ==
    \A res \in {dot_res, dot_par_res} :
        res # NoResult =>
            /\ res.kind \in {"ok", "err"}
            /\ res.kind = "err" <=> Len(x) # matrix.n_cols
            /\ res.kind = "err" => DOMAIN res = {"kind", "msg"}

\* C3 witness: both products were asked with an x of the wrong length and both
\* returned the error value.
C3_Witness ==
    /\ dot_res.kind = "err"
    /\ dot_par_res.kind = "err"
    /\ Len(x) # matrix.n_cols

(***************************************************************************)
(* Claims about the mesh builder.  They are stated on the state in which   *)
(* naive_mesh has returned (mesh_pc = "done"): mesh is the returned cell   *)
(* list, and cells still holds the same cells by (i, j, k).                *)
(***************************************************************************)
Layers(i, j) == {k \in 0..(nz - 1) : IsSome(CellAt(i, j, k))}
ColumnsWithCells == {q \in Columns : Layers(q[1], q[2]) # {}}
LayerCell(i, j, k) == Unwrap(CellAt(i, j, k))
MaxOf(S) == CHOOSE m \in S : \A e \in S : e <= m
MinOf(S) == CHOOSE m \in S : \A e \in S : m <= e
KindCount(cell, kind) == Cardinality({w \in 1..Len(cell.walls) : cell.walls[w].kind = kind})
MeshIds == {mesh[n].id : n \in 1..Len(mesh)}

\* C4: in every mesh returned by naive_mesh with N cells the set of cell ids is
\* exactly {0, ..., N-1}: no id is repeated and none is skipped.
C4_CellIdsAreDense ==
    mesh_pc = "done" =>
        /\ MeshIds = 0..(Len(mesh) - 1)
        /\ \A a, b \in 1..Len(mesh) : a # b => mesh[a].id # mesh[b].id

\* C4 witness: a mesh was returned in which two columns hold different numbers
\* of cells.
C4_Witness ==
    /\ mesh_pc = "done"
    /\ \E q1, q2 \in ColumnsWithCells :
          Cardinality(Layers(q1[1], q1[2])) # Cardinality(Layers(q2[1], q2[2]))

\* C5: in every returned mesh with N cells each Interior wall holds exactly two
\* cell ids, both in [0, N) and both ids of cells of the mesh, and each Terrain,
\* Sky or Inlet wall holds exactly one cell id.
C5_WallsReferenceValidCells ==
    mesh_pc = "done" =>
        \A n \in 1..Len(mesh) : \A w \in 1..Len(mesh[n].walls) :
            LET wall == mesh[n].walls[w]
            IN IF wall.kind = "Interior"
               THEN \A c \in 1..2 :
                       /\ IsSome(wall.cells_id[c])
                       /\ Unwrap(wall.cells_id[c]) \in 0..(Len(mesh) - 1)
                       /\ Unwrap(wall.cells_id[c]) \in MeshIds
               ELSE Cardinality({c \in 1..2 : IsSome(wall.cells_id[c])}) = 1

\* C6: in every returned mesh, for every column that has a cell, the cell of the
\* bottommost active layer has exactly one Terrain wall, its lower wall, and no
\* other cell of the column has a Terrain wall.
C6_BottomCellHasTerrainWall ==
    mesh_pc = "done" =>
        \A q \in ColumnsWithCells :
            LET bottom == MaxOf(Layers(q[1], q[2]))
            IN /\ KindCount(LayerCell(q[1], q[2], bottom), "Terrain") = 1
               /\ LayerCell(q[1], q[2], bottom).walls[4].kind = "Terrain"
               /\ \A k \in Layers(q[1], q[2]) \ {bottom} :
                     KindCount(LayerCell(q[1], q[2], k), "Terrain") = 0

\* C7: in every returned mesh, every cell of an outermost column (i minimal, i
\* maximal, j minimal, j maximal among the columns that carry cells) has an Inlet
\* wall on its outward lateral face, and that face references no neighbour cell.
OutwardInlet(cell, w) ==
    /\ cell.walls[w].kind = "Inlet"
    /\ cell.walls[w].cells_id[2] = None

C7_OutermostColumnsHaveInlet ==
    mesh_pc = "done" =>
        \A q \in ColumnsWithCells : \A k \in Layers(q[1], q[2]) :
            LET cell == LayerCell(q[1], q[2], k)
                is == {r[1] : r \in ColumnsWithCells}
                js == {r[2] : r \in ColumnsWithCells}
            IN /\ q[1] = MinOf(is) => OutwardInlet(cell, 3)
               /\ q[1] = MaxOf(is) => OutwardInlet(cell, 6)
               /\ q[2] = MinOf(js) => OutwardInlet(cell, 2)
               /\ q[2] = MaxOf(js) => OutwardInlet(cell, 5)

FlatTerrain == \A a, b \in 1..Len(elevations) : elevations[a] = elevations[b]

C9_FlatTerrainYieldsLCellsPerColumn ==
    (mesh_pc \notin {"idle", "start"} /\ FlatTerrain /\ Len(zs_in) >= 2) =>
        /\ mesh_pc # "panic"
        /\ \A q \in Columns : Cardinality(Layers(q[1], q[2])) = Len(zs_in) - 1

(***************************************************************************)
(* Claims about the iterative solver.                                      *)
(***************************************************************************)
\* C10: when x0.len() != n_rows, gauss_seidel_solve returns a SolverResult with
\* converged = false, iters = 0, no solution, max_iters_reached = false and a
\* descriptive message, and performs no sweep.
C10_WrongX0LengthIsRejected ==
    (Len(x0) # coefficients.n_rows /\ solver_pc \notin {"idle", "validate"}) =>
        /\ solver_pc = "returned"
        /\ result.converged = FALSE
        /\ result.iters = 0
        /\ result.solution = None
        /\ result.max_iters_reached = FALSE
        /\ result.message = <<"Wrong dimensions", Len(x0), coefficients.n_rows,
                              coefficients.n_cols, Len(column)>>
        /\ sweeps = 0
        /\ solver_x = <<>>

\* C10 witness: the solver returned for an x0 of the wrong length, with sweeps
\* allowed (max_iters > 0) and a right-hand side of the matrix's size.
C10_Witness ==
    /\ solver_pc = "returned"
    /\ Len(x0) # coefficients.n_rows
    /\ max_iters > 0
    /\ Len(column) = coefficients.n_rows
    /\ coefficients.n_rows = coefficients.n_cols

\* The element (r, c) of the coefficient matrix as the products see it: every
\* stored entry of the position contributes.
RECURSIVE ElementFrom(_, _, _)
ElementFrom(r, c, i) ==
    IF i > Len(coefficients.entries) THEN 0
    ELSE (IF coefficients.entries[i][1] = r /\ coefficients.entries[i][2] = c
          THEN coefficients.entries[i][3] ELSE 0) + ElementFrom(r, c, i + 1)

Element(r, c) == ElementFrom(r, c, 1)

RECURSIVE OffDiagonalSum(_, _)
OffDiagonalSum(r, c) ==
    IF c >= coefficients.n_cols THEN 0
    ELSE (IF c = r THEN 0 ELSE Abs(Element(r, c))) + OffDiagonalSum(r, c + 1)

SomeRowViolatesDominance ==
    \E r \in 0..(coefficients.n_rows - 1) : Abs(Element(r, r)) < OffDiagonalSum(r, 0)

DominanceRejection ==
    /\ solver_pc = "returned"
    /\ result.diagonal_dominance = SomeOf(FALSE)
    /\ result.converged = FALSE
    /\ result.iters = 0
    /\ result.solution = None
    /\ sweeps = 0

NoDuplicatePositions ==
    \A i, j \in 1..Len(coefficients.entries) :
        (i # j) => (coefficients.entries[i][1] # coefficients.entries[j][1]
                    \/ coefficients.entries[i][2] # coefficients.entries[j][2])

\* C11: with x0 of length n_rows, gauss_seidel_solve returns at once with
\* diagonal_dominance = Some(false), converged = false, iters = 0 and no solution
\* exactly when some row r has |A[r][r]| < sum over c != r of |A[r][c]|; when no
\* row does, a returned result carries diagonal_dominance = Some(true).
C11_PrecheckIsRowDominance ==
    (Len(x0) = coefficients.n_rows /\ solver_pc \in {"iterate", "returned", "panic"}) =>
        /\ SomeRowViolatesDominance <=> DominanceRejection
        /\ (solver_pc = "returned" /\ ~SomeRowViolatesDominance) =>
               result.diagonal_dominance = SomeOf(TRUE)

\* a < b on two finite fractions, written out for the claims
Below(a, b) == a[2] # 0 /\ b[2] # 0 /\ a[1] * b[2] < b[1] * a[2]

ToleranceOutcome ==
    /\ solver_pc = "returned"
    /\ result.converged = TRUE
    /\ result.max_iters_reached = FALSE

\* C12: gauss_seidel_solve stops at the first sweep s (1 <= s <= max_iters) after
\* which the squared residual is below tol, and reports converged = true,
\* max_iters_reached = false, iters = s, that sweep's solution and an error below
\* tol; while it keeps sweeping, the residual of the last sweep is not below tol,
\* and a returned call has run exactly the sweeps it reports.
C12_StopsAtFirstSweepBelowTol ==
    /\ ToleranceOutcome =>
           /\ sweeps >= 1 /\ sweeps <= max_iters
           /\ result.iters = sweeps
           /\ result.solution = SomeOf(solver_x)
           /\ result.diagonal_dominance = SomeOf(TRUE)
           /\ result.error = SomeOf(SumSquares(dot_f64(coefficients, solver_x).val, column, 1))
           /\ Below(Unwrap(result.error), tol)
    /\ (solver_pc = "iterate" /\ sweeps >= 1) =>
           ~Below(SumSquares(dot_f64(coefficients, solver_x).val, column, 1), tol)

\* C12 witness: the tolerance is met at the second sweep, not at the first.
C12_Witness ==
    /\ ToleranceOutcome
    /\ result.iters = 2
    /\ max_iters >= 2

Residual(xv) == SumSquares(dot_f64(coefficients, xv).val, column, 1)

\* C13: when the squared residual is not below tol after any of max_iters sweeps
\* (max_iters = 0 included), gauss_seidel_solve returns max_iters_reached = true,
\* iters = max_iters, the last iterate as solution, its residual as error and
\* converged = true although the tolerance was not met; a call that passed the
\* precheck returns this outcome exactly when no sweep met the tolerance.
C13_MaxItersOutcome ==
    /\ (solver_pc = "returned" /\ result.max_iters_reached) =>
           /\ sweeps = max_iters
           /\ result.iters = max_iters
           /\ result.converged = TRUE
           /\ result.solution = SomeOf(solver_x)
           /\ result.error = SomeOf(Residual(solver_x))
           /\ (max_iters >= 1) => ~Below(Unwrap(result.error), tol)
    /\ (solver_pc = "returned" /\ result.diagonal_dominance = SomeOf(TRUE)) =>
           (result.max_iters_reached <=>
                (max_iters = 0 \/ ~Below(Residual(solver_x), tol)))

\* C13 witness: two sweeps ran, neither met the tolerance, and the call returned
\* converged = true.
C13_Witness ==
    /\ solver_pc = "returned"
    /\ result.max_iters_reached
    /\ result.converged
    /\ max_iters = 2
    /\ ~Below(Unwrap(result.error), tol)

DimensionsAgree ==
    /\ coefficients.n_rows = coefficients.n_cols
    /\ Len(column) = coefficients.n_rows
    /\ Len(x0) = coefficients.n_rows

\* C14: gauss_seidel_solve never faults on a dimension failure: whenever n_rows,
\* n_cols, the length of the right-hand side and the length of x0 do not all
\* agree, the call ends with a SolverResult that has converged = false, never
\* with a panic.
C14_DimensionFailureIsAResult ==
    (~DimensionsAgree /\ solver_pc \in {"returned", "panic"}) =>
        /\ solver_pc = "returned"
        /\ result.converged = FALSE

RejectedOutcome ==
    /\ solver_pc = "returned"
    /\ result.converged = FALSE
    /\ result.iters = 0

MaxItersOutcome ==
    /\ solver_pc = "returned"
    /\ result.converged = TRUE
    /\ result.max_iters_reached = TRUE

\* C15: every call to gauss_seidel_solve returns a result: it runs at most
\* max_iters sweeps, never ends without a result (a call that stops is in one of
\* the outcomes: tolerance reached, max iterations, or a Validate / Precheck
\* rejection), and the reported iters never exceeds max_iters.
C15_EveryCallReturns ==
    /\ sweeps <= max_iters
    /\ solver_pc # "panic"
    /\ (solver_pc = "returned") =>
           /\ ToleranceOutcome \/ MaxItersOutcome \/ RejectedOutcome
           /\ result.iters <= max_iters

DistinctLevels == {zs_in[n] : n \in 1..Len(zs_in)}
MeshFinished == mesh_pc \in {"done", "panic"}

\* C16: when the level list has fewer than two distinct values (empty, a single
\* value, or one value repeated), naive_mesh does not fault: the build ends with a
\* mesh of zero cells.
C16_DegenerateLevelsGiveEmptyMesh ==
    (MeshFinished /\ Cardinality(DistinctLevels) < 2) =>
        /\ mesh_pc = "done"
        /\ mesh = <<>>

\* A column no layer of which is active: its lowest corner lies above every level.
NoActiveLayer(i, j) == \A n \in 1..Len(zs_in) : zs_in[n] < min_height(i, j)

\* C17: a column that lies on one side of the whole level set, so that none of
\* its layers is active, contributes zero cells, and naive_mesh completes and
\* returns the cells of the other columns.
C17_InactiveColumnIsSkipped ==
    (MeshFinished /\ Len(zs_in) >= 2
     /\ \E q \in Columns : NoActiveLayer(q[1], q[2])) =>
        /\ mesh_pc = "done"
        /\ \A q \in Columns : NoActiveLayer(q[1], q[2]) => Layers(q[1], q[2]) = {}

\* The levels from highest to lowest, whatever the order of the input
RECURSIVE Descending(_)
Descending(S) == IF S = {} THEN <<>> ELSE <<MaxOf(S)>> \o Descending(S \ {MaxOf(S)})

HighToLow == Descending(DistinctLevels)
ActiveLevels(i, j) == TakeWhileCount(HighToLow, min_height(i, j))

\* The build of the ascending permutation of the same levels faults
AscendingBuildPanics ==
    \E q \in Columns : ActiveLevels(q[1], q[2]) \in {0, Len(HighToLow)}

\* C18: naive_mesh processes the levels from highest to lowest regardless of the
\* input order: for distinct levels in any order the build ends as the build of
\* the ascending permutation does, with the same cells in every column, layer k
\* lying between the (k+1)-th and the (k+2)-th highest level.
C18_LevelOrderIsIrrelevant ==
    (MeshFinished /\ Cardinality(DistinctLevels) = Len(zs_in)) =>
        /\ (mesh_pc = "panic") <=> AscendingBuildPanics
        /\ (mesh_pc = "done") =>
               \A q \in Columns :
                   /\ Layers(q[1], q[2]) = 0..(ActiveLevels(q[1], q[2]) - 1)
                   /\ \A k \in Layers(q[1], q[2]) :
                          /\ LayerCell(q[1], q[2], k).vertices[3][3] = HighToLow[k + 1]
                          /\ LayerCell(q[1], q[2], k).vertices[1][3] = HighToLow[k + 2]

(***************************************************************************)
(* Claims about SparseMatrix::load.                                        *)
(***************************************************************************)
LineOrders(n) == {p \in [1..n -> 1..n] : \A a, b \in 1..n : a # b => p[a] # p[b]}
Reordered(lines, p) == [n \in 1..Len(lines) |-> lines[p[n]]]

SameMatrix(a, b) ==
    /\ a.kind = b.kind
    /\ (a.kind = "ok") =>
           /\ a.val.n_rows = b.val.n_rows
           /\ a.val.n_cols = b.val.n_cols
           /\ a.val.entries = b.val.entries
           /\ a.val.row_indices = b.val.row_indices

\* C19: line order is irrelevant on load: every file that holds the same lines
\* in another order loads to the same n_rows, n_cols, entry sequence and row
\* index, also when several lines share a (row, col) position.
C19_LineOrderIsIrrelevant ==
    (load_res.kind \notin {"idle", "none"}) =>
        \A p \in LineOrders(Len(file)) : SameMatrix(load_res, load(Reordered(file, p)))

(***************************************************************************)
(* Claims about the parallel regions.                                      *)
(***************************************************************************)
TasksRun == (0..(Len(par_out) - 1)) \ par_todo
XBeforeSweep == [i \in 1..Len(x0) |-> FromInt(x0[i])]

\* C20: in dot_par and in the update of a sweep each row task writes only its own
\* output slot and reads only data no task of the region writes: no two tasks
\* access one slot with a write, a slot holds the sequential value as soon as its
\* task has run whatever the other tasks have done, and the joined vector equals
\* the sequential row-by-row result.
C20_RowTasksAreIndependent ==
    /\ \A a, b \in par_log :
           (a[1] # b[1] /\ a[3] = b[3] /\ a[4] = b[4]) => (a[2] = "r" /\ b[2] = "r")
    /\ \A a \in par_log : (a[2] = "w") => a[4] = a[1]
    /\ (par_region = "dot_par") =>
           /\ \A r \in par_todo : At(par_out, r) = None
           /\ \A r \in TasksRun : At(par_out, r) = SomeOf(dot_par(matrix, x).val[r + 1])
           /\ (par_pc = "joined") => dot_par_res = dot_par(matrix, x)
    /\ (par_region = "sweep") =>
           /\ \A i \in par_todo : At(par_out, i) = XBeforeSweep[i + 1]
           /\ (par_pc = "joined") => solver_x = SweepUpdate(XBeforeSweep)

\* C20 witness: the tasks of a sweep over two rows were joined, on a matrix with
\* an off-diagonal entry and an x that makes sum_rows non-zero.
C20_Witness ==
    /\ par_region = "sweep"
    /\ par_pc = "joined"
    /\ Len(solver_x) = 2
    /\ off_diagonal_entries(coefficients) # <<>>
    /\ \E i \in 1..Len(x0) : x0[i] # 0
    /\ \E i \in 1..Len(par_sum_rows) : par_sum_rows[i] # FromInt(0)

(***************************************************************************)
(* Claims about the compaction of the mesh and the row index.              *)
(***************************************************************************)
\* The final id of the cell that was created with the provisional id p
FinalIdOf(p) ==
    LET q == CHOOSE q \in (0..(nx - 1)) \X (0..(ny - 1)) \X (0..(nz - 1)) :
                 ProvisionalId(q[1], q[2], q[3]) = p
    IN IF IsSome(CellAt(q[1], q[2], q[3])) THEN SomeOf(LayerCell(q[1], q[2], q[3]).id)
       ELSE None

\* The walls as CellWalls built them for the cell at (i, j, k), before compaction
BuiltWalls(i, j, k) == CellWalls(i, j, k, ProvisionalId(i, j, k))

\* C21: after the compaction step every cell id stored in a wall of a returned
\* cell has gone through the old-id to new-id remap: the first id of each wall of
\* a cell c is c.id, and a second id, when present, is the final id of the
\* adjacent cell the wall was built to reference.
C21_WallIdsAreRemapped ==
    (mesh_pc = "done") =>
        \A q \in Columns : \A k \in Layers(q[1], q[2]) :
            LET c == LayerCell(q[1], q[2], k)
            IN \A w \in 1..Len(c.walls) :
                  /\ c.walls[w].cells_id[1] = SomeOf(c.id)
                  /\ IsSome(c.walls[w].cells_id[2]) =>
                         LET built == Unwrap(BuiltWalls(q[1], q[2], k)[w].cells_id[2])
                         IN IsSome(FinalIdOf(built)) =>
                                c.walls[w].cells_id[2] = FinalIdOf(built)

\* The positions of the entries of row r in the sorted entry list
RowPositions(r) == {i \in 0..(Len(matrix.entries) - 1) : At(matrix.entries, i)[1] = r}

\* C22: after preprocess, for every row r in [0, n_rows), row_indices[r] is
\* Some((start, end)) with start..=end exactly the positions of the entries of
\* row r when the row has an entry, and None when it has none, also when row 0
\* or other leading rows are empty.
C22_RowIndexCoversEachRow ==
    (mpc = "ready") =>
        /\ Len(matrix.row_indices) = matrix.n_rows
        /\ \A r \in 0..(matrix.n_rows - 1) :
              IF RowPositions(r) = {} THEN At(matrix.row_indices, r) = None
              ELSE /\ At(matrix.row_indices, r) # None
                   /\ At(matrix.row_indices, r)[1]..At(matrix.row_indices, r)[2]
                          = RowPositions(r)

(***************************************************************************)
(* Claims about the sweep of the solver.                                   *)
(***************************************************************************)
\* The sum of A[i][c] * xv[c] over the stored off-diagonal entries of row i
RECURSIVE OffDiagonalProduct(_, _, _)
OffDiagonalProduct(i, xv, k) ==
    IF k > Len(coefficients.entries) THEN FromInt(0)
    ELSE LET e == coefficients.entries[k]
         IN FAdd(IF e[1] = i /\ e[2] # i THEN FMul(FromInt(e[3]), At(xv, e[2]))
                 ELSE FromInt(0),
                 OffDiagonalProduct(i, xv, k + 1))

\* Row i of a Jacobi step from xv, divided by d
JacobiRow(i, xv, d) ==
    FDiv(FSub(FromInt(At(column, i)), OffDiagonalProduct(i, xv, 1)), FromInt(d))

\* The iterate after n sweeps, each row computed from the iterate before the
\* sweep and divided by the element of the solver's diagonal vector
RECURSIVE JacobiIterate(_)
JacobiIterate(n) ==
    IF n = 0 THEN [i \in 1..Len(x0) |-> FromInt(x0[i])]
    ELSE LET before == JacobiIterate(n - 1)
         IN [i \in 1..Len(x0) |->
                JacobiRow(i - 1, before, At(diagonal_values(coefficients), i - 1))]

\* C23: each sweep of gauss_seidel_solve is a Jacobi step: the new value of every
\* row is computed only from the values x held at the start of the sweep, never
\* from a value updated in the same sweep, so after s sweeps x is the s-th Jacobi
\* iterate of x0 whatever the order of the rows.
C23_SweepIsJacobiStep ==
    (solver_pc \in {"iterate", "returned"} /\ sweeps >= 1) =>
        solver_x = JacobiIterate(sweeps)

\* C23 witness: a second sweep ran on a matrix where row 1 reads x[0], which the
\* first sweep had made non-zero.
C23_Witness ==
    /\ solver_pc \in {"iterate", "returned"}
    /\ sweeps = 2
    /\ \E k \in 1..Len(coefficients.entries) :
          coefficients.entries[k][1] = 1 /\ coefficients.entries[k][2] = 0
    /\ solver_x # JacobiIterate(1)

\* The values stored on the diagonal position of row i
DiagonalOfRow(i) ==
    {coefficients.entries[k][3] : k \in {n \in 1..Len(coefficients.entries) :
        coefficients.entries[n][1] = i /\ coefficients.entries[n][2] = i}}

\* C24: for every matrix that passes Validate and Precheck (a row without any
\* entry, a row without a diagonal entry and two entries on one diagonal position
\* included) a sweep sets x[i] = (b[i] - sum of A[i][c] * x_old[c] over the
\* off-diagonal entries of row i) / A[i][i], the divisor being the diagonal entry
\* of the same row i (a row without one divides by 0); the sweep does not fault
\* when the dimensions agree.
C24_DivisorIsTheRowsDiagonal ==
    /\ ~(solver_pc = "panic" /\ DimensionsAgree)
    /\ (solver_pc \in {"iterate", "returned"} /\ sweeps = 1) =>
           \A i \in 0..(Len(solver_x) - 1) :
               IF DiagonalOfRow(i) = {} THEN ~IsFinite(At(solver_x, i))
               ELSE \E d \in DiagonalOfRow(i) :
                        At(solver_x, i) = JacobiRow(i, XBeforeSweep, d)

\* C25: gauss_seidel_solve runs Validate, then Precheck, then the sweeps, and a
\* failed phase ends the call: the dominance precheck is evaluated only when the
\* length of x0 is right (a wrong length yields diagonal_dominance = None also for
\* a matrix that is not dominant), and no sweep runs unless both checks passed.
C25_PhasesRunInOrder ==
    /\ (solver_pc = "returned" /\ Len(x0) # coefficients.n_rows) =>
           result.diagonal_dominance = None
    /\ (solver_pc \in {"precheck", "iterate", "panic"} \/ sweeps >= 1
        \/ (solver_pc = "returned" /\ result.diagonal_dominance # None)) =>
           Len(x0) = coefficients.n_rows
    /\ (solver_pc \in {"iterate", "panic"} \/ sweeps >= 1
        \/ (solver_pc = "returned" /\ result.diagonal_dominance = SomeOf(TRUE))) =>
           is_gauss_seidel_convergent
    /\ (solver_pc = "returned" /\ result.diagonal_dominance = SomeOf(FALSE)) =>
           (~is_gauss_seidel_convergent /\ sweeps = 0)

\* C25 witness: a call with an x0 of the wrong length on a matrix that is not
\* dominant returned without a dominance verdict.
C25_Witness ==
    /\ solver_pc = "returned"
    /\ Len(x0) # coefficients.n_rows
    /\ ~is_gauss_seidel_convergent
    /\ result.diagonal_dominance = None
    /\ max_iters > 0

(***************************************************************************)
(* Claims about the cells of the returned mesh.                            *)
(***************************************************************************)
WallOrder ==
    << <<3, 7, 6, 2>>, <<3, 2, 1, 0>>, <<0, 4, 7, 3>>, <<0, 1, 5, 4>>, <<4, 5, 6, 7>>,
       <<1, 2, 6, 5>> >>

\* C26: every cell of a returned mesh has exactly 6 walls in the order top, south,
\* west, bottom, north, east; the top wall of a cell at layer k > 0 is Interior
\* and references the cell of layer k-1 of its column, and the bottom wall of a
\* cell that is not the bottommost layer is Interior and references the cell of
\* layer k+1 of its column.
C26_SixWallsWithVerticalNeighbours ==
    (mesh_pc = "done") =>
        \A q \in Columns : \A k \in Layers(q[1], q[2]) :
            LET c == LayerCell(q[1], q[2], k)
            IN /\ Len(c.walls) = 6
               /\ \A w \in 1..6 : c.walls[w].poly = WallOrder[w]
               /\ (k > 0) =>
                      /\ c.walls[1].kind = "Interior"
                      /\ c.walls[1].cells_id[2] = SomeOf(LayerCell(q[1], q[2], k - 1).id)
               /\ (k < MaxOf(Layers(q[1], q[2]))) =>
                      /\ c.walls[4].kind = "Interior"
                      /\ c.walls[4].cells_id[2] = SomeOf(LayerCell(q[1], q[2], k + 1).id)

\* C27: in the returned cell list the cell at position n has id n: ids are
\* assigned during compaction in the order in which the cells are collected.
C27_PositionIsId ==
    (mesh_pc = "done") => \A n \in 1..Len(mesh) : mesh[n].id = n - 1

\* C27 witness: a mesh of two columns with two cells each, where the provisional
\* ids are neither dense nor in collection order.
C27_Witness ==
    /\ mesh_pc = "done"
    /\ Cardinality(ColumnsWithCells) >= 2
    /\ \A q \in ColumnsWithCells : Cardinality(Layers(q[1], q[2])) >= 2
    /\ Len(mesh) >= 4

LevelsAtOrAbove(h) == {n \in 1..Len(zs_in) : zs_in[n] >= h}

ColumnIsCut(i, j) ==
    /\ LevelsAtOrAbove(min_height(i, j)) # {}
    /\ Cardinality(LevelsAtOrAbove(min_height(i, j))) < Len(zs_in)

\* C28: with ascending levels, a column with at least one level >= the lowest of
\* its four corner elevations and at least one level below it yields exactly as
\* many cells as there are levels >= that minimum, stacked from the highest
\* level downwards, the bottom cell reaching down to the first level below the
\* minimum; the build completes when every column is such a column.
C28_DepthFollowsLowestCorner ==
    /\ (\A q \in Columns : ColumnIsCut(q[1], q[2])) => mesh_pc # "panic"
    /\ (mesh_pc \in {"cells", "walls", "indexed", "reindexed", "done"}) =>
           \A q \in Columns :
               ColumnIsCut(q[1], q[2]) =>
                   LET m == Cardinality(LevelsAtOrAbove(min_height(q[1], q[2])))
                   IN /\ Layers(q[1], q[2]) = 0..(m - 1)
                      /\ \A k \in 0..(m - 1) :
                             /\ LayerCell(q[1], q[2], k).vertices[3][3] = HighToLow[k + 1]
                             /\ LayerCell(q[1], q[2], k).vertices[1][3] = HighToLow[k + 2]
                      /\ LayerCell(q[1], q[2], m - 1).vertices[1][3] < min_height(q[1], q[2])

\* C28 witness: two columns of different depth in one finished mesh.
C28_Witness ==
    /\ mesh_pc = "done"
    /\ \E p, q \in Columns :
          /\ Cardinality(Layers(p[1], p[2])) = 1
          /\ Cardinality(Layers(q[1], q[2])) = 2

\* C29: naive_mesh never fills the neighbours list of a cell: in every returned
\* mesh each cell's neighbours list is empty.
C29_NeighboursStayEmpty ==
    /\ (mesh_pc = "done") => \A n \in 1..Len(mesh) : mesh[n].neighbours = <<>>
    /\ \A n \in 1..Len(cells) : IsSome(cells[n]) => Unwrap(cells[n]).neighbours = <<>>

\* C29 witness: a returned mesh with a cell below another, adjacent only through
\* an Interior wall.
C29_Witness ==
    /\ mesh_pc = "done"
    /\ \E n \in 1..Len(mesh) :
          /\ mesh[n].walls[1].kind = "Interior"
          /\ mesh[n].neighbours = <<>>

\* C30: preprocess, and so from_vecs, completes without fault for every entry
\* list, the empty one included, for which it yields n_rows = 0, n_cols = 0 and
\* an empty row index.
C30_PreprocessNeverFaults ==
    (mpc \in {"ready", "panic"}) =>
        /\ mpc = "ready"
        /\ (izip(rows, cols, values) = <<>>) =>
               /\ matrix.n_rows = 0
               /\ matrix.n_cols = 0
               /\ matrix.row_indices = <<>>

====
